---- MODULE Spec2Model ----
(***************************************************************************)
(* Model of dashboard.py: the key classifier (detect_key_type), the error  *)
(* explanation mapper (get_error_details) and the usage prober             *)
(* (fetch_api_usage and the fetch_<provider>_usage functions).             *)
(*                                                                         *)
(* One probe is one run of the state machine: pc names the function that   *)
(* is about to run or the outbound call that is about to be issued; every  *)
(* outbound call is one action whose response is chosen by the network.    *)
(*                                                                         *)
(* The key store (tables accounts and api_keys) and its REST endpoints     *)
(* are a second machine on the same variables: one request is one action.  *)
(***************************************************************************)
EXTENDS Integers, Sequences, FiniteSets, TLC

VARIABLES
    entry,      \* the function the caller invoked
    api_key,    \* the secret handed to the probe
    pc,         \* the function / step about to run, "done" or "raised"
    key_info,   \* fetch_api_usage's local key_info (detect_key_type's result)
    result,     \* the probe's result dict (a function from field names)
    has_usage,  \* fetch_openai_usage's local has_usage
    has_costs,  \* fetch_openai_usage's local has_costs
    calls,      \* the outbound calls issued so far, with their responses
    exc,        \* the exception that left the probe, "None" when none did
    json_caught,\* whether the installed requests raises its JSONDecodeError
                \* as a RequestException (requests >= 2.27) or as a ValueError
    raw_message,\* get_error_details's argument error_message
    http_status,\* get_error_details's argument status_code
    explanation,\* what get_error_details returned
    accounts,   \* the ids of the rows of table accounts
    api_keys,   \* table api_keys: a function from the ids of its rows to the rows
    next_key_id,\* the id AUTOINCREMENT gives the next row of api_keys
    response    \* the response to the last request of the client

probeVars == <<entry, api_key, pc, key_info, result, has_usage, has_costs, calls,
               exc, json_caught>>
explainVars == <<raw_message, http_status, explanation>>
storeVars == <<accounts, api_keys, next_key_id, response>>

\* the variables a probe leaves alone
nonProbeVars == <<explainVars, storeVars>>

vars == <<probeVars, explainVars, storeVars>>

----------------------------------------------------------------------------
(* Bounds of the model.                                                    *)

\* keys are a prefix followed by 0..MaxShortPad or LongPadFrom..MaxPad filler
\* characters, so that both short keys and keys around 60 characters occur
MaxShortPad == 1
LongPadFrom == 50
MaxPad == 58

----------------------------------------------------------------------------
(* Strings and dicts.                                                      *)

\* str.startswith
startswith(s, prefix) ==
    /\ Len(s) >= Len(prefix)
    /\ SubSeq(s, 1, Len(prefix)) = prefix

\* the Python test `sub in s` on strings
Contains(s, sub) ==
    \E i \in 1..(Len(s) - Len(sub) + 1) : SubSeq(s, i, i + Len(sub) - 1) = sub

\* the Python slice s[:n]
Take(s, n) == SubSeq(s, 1, IF Len(s) < n THEN Len(s) ELSE n)

\* the empty dict, and d[k] = v on a dict
EmptyDict == [k \in {} |-> k]
Put(d, k, v) == [f \in DOMAIN d \cup {k} |-> IF f = k THEN v ELSE d[f]]

RECURSIVE Pad(_)
Pad(n) == IF n = 0 THEN "" ELSE "x" \o Pad(n - 1)

----------------------------------------------------------------------------
(* Inputs: the keys a probe is called with and what the network answers.   *)

KeyPrefixes ==
    { "", "s", "sk", "sk-", "sk-admin", "sk-admin-", "sk-proj", "sk-proj-",
      "sk-ant-", "sk-admin-sk-ant-", "sk-proj-BSA", "BS", "BSA", "BSAsk-ant-",
      "bsa", "gsk_", "pplx-", "xai-" }

PadLengths == (0..MaxShortPad) \cup (LongPadFrom..MaxPad)

\* keys made of lowercase hexadecimal digits only
HexDigits == "0123456789abcdef"
RECURSIVE HexString(_)
HexString(n) ==
    IF n = 0 THEN ""
    ELSE HexString(n - 1) \o SubSeq(HexDigits, ((n - 1) % 16) + 1, ((n - 1) % 16) + 1)
HexKeyLengths == {32, 64}

Keys ==
    { p \o Pad(n) : p \in KeyPrefixes, n \in PadLengths }
    \cup { HexString(n) : n \in HexKeyLengths }

\* HTTP status codes the providers answer with; 418 stands for a code the
\* error table does not list
StatusCodes == {200, 401, 403, 404, 429, 500, 418}

\* the status code get_error_details is given for a network failure (None)
NoStatusCode == 0

\* response.json() of a body: its type ("JSONDecodeError" when the body is not
\* JSON) and, for a dict, what its "data" entry is
JsonValues ==
    { [type |-> "dict", data |-> "list"],
      [type |-> "dict", data |-> "absent"],
      [type |-> "dict", data |-> "null"],
      [type |-> "list", data |-> "absent"],
      [type |-> "JSONDecodeError", data |-> "absent"] }

BodyText(j) ==
    CASE j.type = "dict" /\ j.data = "list" -> "{\"data\": []}"
      [] j.type = "dict" /\ j.data = "absent" -> "{}"
      [] j.type = "dict" /\ j.data = "null" -> "{\"data\": null}"
      [] j.type = "list" -> "[]"
      [] OTHER -> "<html>Bad Gateway</html>"

ErrorBodies ==
    { "You have insufficient permissions for this operation. Missing scopes: api.usage.read",
      "Incorrect API key provided" }

NotJson == [type |-> "JSONDecodeError", data |-> "absent"]

\* a response object (kind "response") or a raised
\* requests.exceptions.RequestException (kind "RequestException", text = str(e))
Responses ==
    { [kind |-> "response", status_code |-> 200, text |-> BodyText(j), json |-> j] :
        j \in JsonValues }
    \cup
    { [kind |-> "response", status_code |-> c, text |-> t, json |-> NotJson] :
        c \in StatusCodes \ {200}, t \in ErrorBodies }
    \cup
    { [kind |-> "RequestException", status_code |-> NoStatusCode, text |-> t,
       json |-> NotJson] :
        t \in {"Read timed out", "Connection refused"} }

----------------------------------------------------------------------------
(* detect_key_type: the key classifier.                                    *)

Classification(provider, type) == [provider |-> provider, type |-> type]

\* key_info before detect_key_type ran
NoKeyInfo == Classification("none", "none")

\* the bare 'sk-' rule tried before the longer 'sk-admin-' / 'sk-proj-' rules
detect_key_type_BareFirst(key) ==
    IF startswith(key, "sk-") THEN Classification("openai", "project")
    ELSE IF startswith(key, "sk-admin-") THEN Classification("openai", "admin")
    ELSE IF startswith(key, "sk-proj-") THEN Classification("openai", "project")
    ELSE IF startswith(key, "sk-ant-") THEN Classification("anthropic", "project")
    ELSE IF startswith(key, "BSA") THEN Classification("brave", "search")
    ELSE Classification("unknown", "unknown")

\* the third character read without a length guard (key[2] == '-'), which
\* raises IndexError on a key shorter than three characters
detect_key_type_Unguarded(key) ==
    IF Len(key) < 3 THEN Classification("IndexError", "IndexError")
    ELSE IF startswith(key, "sk-admin-") THEN Classification("openai", "admin")
    ELSE IF startswith(key, "sk-proj-") THEN Classification("openai", "project")
    ELSE IF startswith(key, "sk-") THEN Classification("openai", "project")
    ELSE IF startswith(key, "sk-ant-") THEN Classification("anthropic", "project")
    ELSE IF startswith(key, "BSA") THEN Classification("brave", "search")
    ELSE Classification("unknown", "unknown")

detect_key_type(key) ==
    IF startswith(key, "sk-admin-") THEN Classification("openai", "admin")
    ELSE IF startswith(key, "sk-proj-") THEN Classification("openai", "project")
    ELSE IF startswith(key, "sk-") THEN Classification("openai", "project")
    ELSE IF startswith(key, "sk-ant-") THEN Classification("anthropic", "project")
    ELSE IF startswith(key, "BSA") THEN Classification("brave", "search")
    ELSE Classification("unknown", "unknown")

----------------------------------------------------------------------------
(* get_error_details: the error explanation mapper.                        *)

InsufficientScopes ==
    [ icon |-> "lock", title |-> "Insufficient API Key Scopes",
      description |-> "Your API key doesn't have the required permissions (scopes) for this operation.",
      solutions |-> << "Create a new API key with 'All' permissions in OpenAI dashboard",
                       "Ensure your role is 'Owner' or 'Admin' in the organization",
                       "Check that the key isn't restricted to specific models/endpoints",
                       "For Usage API: Contact OpenAI support to enable usage monitoring permissions" >> ]

\* error_mappings, the table keyed by status code
error_mappings(status_code) ==
    CASE status_code = 401 ->
           [ icon |-> "key", title |-> "Authentication Failed",
             description |-> "Your API key is invalid, expired, or doesn't have proper permissions.",
             solutions |-> << "Check if the API key is correctly copied (no extra spaces)",
                              "Verify the key hasn't been revoked in OpenAI dashboard",
                              "Ensure the key has billing enabled on your OpenAI account",
                              "Check if the key belongs to the correct organization",
                              "Try creating a new API key with 'All' permissions" >> ]
      [] status_code = 403 ->
           [ icon |-> "no entry", title |-> "Permission Denied",
             description |-> "Your API key doesn't have access to the Usage API. This is common - most OpenAI keys can't access usage data.",
             solutions |-> << "Usage API access is restricted - most API keys cannot access it",
                              "Contact OpenAI support specifically requesting Usage API access",
                              "Consider using OpenAI's web dashboard for usage monitoring instead",
                              "For now, use this dashboard to test key validity and organize your keys",
                              "Note: Even 'admin' keys often don't have Usage API access" >> ]
      [] status_code = 429 ->
           [ icon |-> "stopwatch", title |-> "Rate Limited",
             description |-> "You're making too many requests. OpenAI has temporarily blocked further calls.",
             solutions |-> << "Wait a few minutes before trying again",
                              "Reduce the frequency of dashboard refreshes",
                              "Consider upgrading your OpenAI plan for higher limits",
                              "Implement exponential backoff in your requests" >> ]
      [] status_code = 500 ->
           [ icon |-> "wrench", title |-> "OpenAI Server Error",
             description |-> "OpenAI's servers are experiencing issues. This is not your fault.",
             solutions |-> << "Wait a few minutes and try again",
                              "Check OpenAI's status page (status.openai.com)",
                              "Try again during off-peak hours",
                              "Contact OpenAI support if the issue persists" >> ]
      [] status_code = 404 ->
           [ icon |-> "question mark", title |-> "Endpoint Not Found",
             description |-> "The Usage API endpoint doesn't exist or has changed.",
             solutions |-> << "Usage API access is highly restricted by OpenAI",
                              "Most API keys cannot access usage endpoints",
                              "Use OpenAI's web dashboard for usage monitoring",
                              "This dashboard can still help organize and test your keys" >> ]

\* the table without its entry for 429
MappedCodes_Without429 == {401, 403, 500, 404}

MappedCodes == {401, 403, 429, 500, 404}

\* the generic explanation with a fixed description in place of the message
UnknownError_FixedDescription(error_message) ==
    [ icon |-> "warning", title |-> "Unknown Error",
      description |-> "An unknown error occurred",
      solutions |-> << "Check your internet connection",
                       "Verify the API key is correct",
                       "Try refreshing the page",
                       "Contact support if the issue persists" >> ]

UnknownError(error_message) ==
    [ icon |-> "warning", title |-> "Unknown Error",
      description |-> error_message,
      solutions |-> << "Check your internet connection",
                       "Verify the API key is correct",
                       "Try refreshing the page",
                       "Contact support if the issue persists" >> ]

\* the status-code table consulted before the content check
get_error_details_TableFirst(error_message, status_code) ==
    IF status_code \in MappedCodes THEN error_mappings(status_code)
    ELSE IF Contains(error_message, "Missing scopes") \/ Contains(error_message, "api.model.read")
    THEN InsufficientScopes
    ELSE UnknownError(error_message)

get_error_details(error_message, status_code) ==
    IF Contains(error_message, "Missing scopes") \/ Contains(error_message, "api.model.read")
    THEN InsufficientScopes
    ELSE IF status_code \in MappedCodes THEN error_mappings(status_code)
    ELSE UnknownError(error_message)

----------------------------------------------------------------------------
(* The key store: tables accounts and api_keys and the functions on them.  *)

\* the most keys ever added (the ids AUTOINCREMENT hands out are 1..MaxKeys)
MaxKeys == 2

\* NULL / None in an id column or an id argument
NoneId == 0

AccountIds == {1, 2}

\* accounts.email of an account
Email(account_id) ==
    IF account_id = 1 THEN "user@example.com" ELSE "second@example.com"

\* mask_api_key
mask_api_key(full_key) ==
    IF Len(full_key) > 20
    THEN SubSeq(full_key, 1, 12) \o "..." \o SubSeq(full_key, Len(full_key) - 5, Len(full_key))
    ELSE Take(full_key, 8) \o "..."

\* a row of api_keys
KeyRow(name, full_key, key_type, provider, account_id, admin_key_id) ==
    [ name |-> name, full_key |-> full_key, masked_key |-> mask_api_key(full_key),
      key_type |-> key_type, provider |-> provider,
      account_id |-> account_id, admin_key_id |-> admin_key_id ]

\* update_key: the row after UPDATE api_keys SET ..., with or without full_key
update_key(row, name, full_key, account_id, admin_key_id) ==
    IF full_key # ""
    THEN [row EXCEPT !.name = name, !.full_key = full_key,
                     !.masked_key = mask_api_key(full_key),
                     !.account_id = account_id, !.admin_key_id = admin_key_id]
    ELSE [row EXCEPT !.name = name, !.account_id = account_id,
                     !.admin_key_id = admin_key_id]

\* delete_key and delete_account's DELETE FROM api_keys
Without(table, ids) == [i \in DOMAIN table \ ids |-> table[i]]

\* the name test with the excluded id compared for equality
check_name_exists_ExcludeInverted(table, name, account_id, exclude_id) ==
    \E i \in DOMAIN table :
        /\ table[i].name = name
        /\ account_id # NoneId
        /\ table[i].account_id = account_id
        /\ exclude_id # NoneId => i = exclude_id

\* check_name_exists: account_id = NULL matches no row
check_name_exists(table, name, account_id, exclude_id) ==
    \E i \in DOMAIN table :
        /\ table[i].name = name
        /\ account_id # NoneId
        /\ table[i].account_id = account_id
        /\ exclude_id # NoneId => i # exclude_id

\* the regular expression ^(sk-|BSA) of add_key_endpoint and update_key_endpoint
valid_key_format(full_key) == startswith(full_key, "sk-") \/ startswith(full_key, "BSA")

\* a row of get_all_keys / get_key_by_id: the row joined with its admin key
\* and its account (LEFT JOIN: "None" where there is no such row)
JoinedRow(table, accts, i) ==
    [ id |-> i, name |-> table[i].name, full_key |-> table[i].full_key,
      masked_key |-> table[i].masked_key, key_type |-> table[i].key_type,
      provider |-> table[i].provider, account_id |-> table[i].account_id,
      admin_key_id |-> table[i].admin_key_id,
      admin_name |-> IF table[i].admin_key_id \in DOMAIN table
                     THEN table[table[i].admin_key_id].name ELSE "None",
      account_email |-> IF table[i].account_id \in accts
                        THEN Email(table[i].account_id) ELSE "None" ]

----------------------------------------------------------------------------
(* The handling of one response by each step of a probe.  Each operator     *)
(* gives the result dict after the step and the exception, if any, that     *)
(* leaves the function ("None" when none does).                             *)

\* str(e) of the error response.json() raises on a body that is not JSON
JSONDecodeErrorText == "Expecting value: line 1 column 1 (char 0)"

StepOutcome(res, has, e) == [result |-> res, has |-> has, exc |-> e]

\* fetch_openai_usage, the try block around the usage call.  caught says
\* whether the JSONDecodeError of response.json() is a RequestException, as it
\* is in requests >= 2.27 and is not before.
openai_usage_handler(res, resp, caught) ==
    IF resp.kind = "RequestException" THEN
        StepOutcome(Put(res, "usage_error",
            [ error |-> "Usage API network error: " \o resp.text,
              error_details |-> get_error_details(resp.text, NoStatusCode) ]),
            FALSE, "None")
    ELSE IF resp.status_code = 200 THEN
        IF resp.json.type = "JSONDecodeError" THEN
            IF caught THEN
                StepOutcome(Put(res, "usage_error",
                    [ error |-> "Usage API network error: " \o JSONDecodeErrorText,
                      error_details |-> get_error_details(JSONDecodeErrorText, NoStatusCode) ]),
                    FALSE, "None")
            ELSE StepOutcome(res, FALSE, "JSONDecodeError")
        ELSE IF resp.json.type # "dict" THEN
            \* usage_json.get('data', []) on a value that is no dict
            StepOutcome(res, FALSE, "AttributeError")
        ELSE IF resp.json.data = "null" THEN
            \* len(None)
            StepOutcome(res, FALSE, "TypeError")
        ELSE StepOutcome(Put(res, "usage", resp.json), TRUE, "None")
    ELSE
        StepOutcome(Put(res, "usage_error",
            [ error |-> "Usage API failed: " \o ToString(resp.status_code) \o " - " \o resp.text,
              error_details |-> get_error_details(resp.text, resp.status_code) ]),
            FALSE, "None")

\* fetch_openai_usage, the try block around the costs call
openai_costs_handler(res, resp, caught) ==
    IF resp.kind = "RequestException" THEN
        StepOutcome(Put(res, "costs_error",
            [ error |-> "Costs API network error: " \o resp.text,
              error_details |-> get_error_details(resp.text, NoStatusCode) ]),
            FALSE, "None")
    ELSE IF resp.status_code = 200 THEN
        IF resp.json.type = "JSONDecodeError" THEN
            IF caught THEN
                StepOutcome(Put(res, "costs_error",
                    [ error |-> "Costs API network error: " \o JSONDecodeErrorText,
                      error_details |-> get_error_details(JSONDecodeErrorText, NoStatusCode) ]),
                    FALSE, "None")
            ELSE StepOutcome(res, FALSE, "JSONDecodeError")
        ELSE StepOutcome(Put(res, "costs", resp.json), TRUE, "None")
    ELSE
        StepOutcome(Put(res, "costs_error",
            [ error |-> "Costs API failed: " \o ToString(resp.status_code) \o " - " \o resp.text,
              error_details |-> get_error_details(resp.text, resp.status_code) ]),
            FALSE, "None")

\* fetch_openai_usage, the final status
openai_final_status(res, usage_ok, costs_ok) ==
    IF usage_ok /\ costs_ok THEN Put(res, "status", "success")
    ELSE IF usage_ok \/ costs_ok THEN Put(res, "status", "partial")
    ELSE Put(Put(res, "status", "no_usage_access"),
             "message", "API key cannot access usage monitoring endpoints")

\* the explanation mapped without the response's status code
anthropic_handler_NoCode(res, resp) ==
    IF resp.kind = "RequestException" THEN
        Put(Put(Put(res, "status", "error"),
                "error", "Anthropic API network error: " \o resp.text),
            "error_details", get_error_details(resp.text, NoStatusCode))
    ELSE IF resp.status_code = 200 THEN
        Put(Put(Put(res, "status", "success"), "basic_access", TRUE),
            "message", "Anthropic API key is working (no usage API available)")
    ELSE
        Put(Put(Put(res, "status", "error"),
                "error", "Anthropic API failed: " \o ToString(resp.status_code) \o " - " \o resp.text),
            "error_details", get_error_details(resp.text, NoStatusCode))

\* fetch_anthropic_usage, the try block around the messages call
anthropic_handler(res, resp) ==
    IF resp.kind = "RequestException" THEN
        Put(Put(Put(res, "status", "error"),
                "error", "Anthropic API network error: " \o resp.text),
            "error_details", get_error_details(resp.text, NoStatusCode))
    ELSE IF resp.status_code = 200 THEN
        Put(Put(Put(res, "status", "success"), "basic_access", TRUE),
            "message", "Anthropic API key is working (no usage API available)")
    ELSE
        Put(Put(Put(res, "status", "error"),
                "error", "Anthropic API failed: " \o ToString(resp.status_code) \o " - " \o resp.text),
            "error_details", get_error_details(resp.text, resp.status_code))

\* fetch_brave_usage, the handling of the search call's response
brave_search_handler(res, resp) ==
    IF resp.kind = "RequestException" THEN
        Put(Put(Put(res, "status", "error"),
                "error", "Brave Search API network error: " \o resp.text),
            "error_details", get_error_details(resp.text, NoStatusCode))
    ELSE IF resp.status_code = 200 THEN
        Put(Put(Put(res, "status", "success"), "basic_access", TRUE),
            "message", "Brave Search API key is working")
    ELSE
        Put(Put(Put(res, "status", "error"),
                "error", "Brave Search API failed: " \o ToString(resp.status_code) \o " - " \o resp.text),
            "error_details", get_error_details(resp.text, resp.status_code))

\* a failed usage-info call turned into an error of the probe
brave_usage_handler_FailureIsError(res, resp) ==
    IF /\ resp.kind = "response"
       /\ resp.status_code = 200
       /\ resp.json.type # "JSONDecodeError"
    THEN Put(res, "usage", resp.json)
    ELSE Put(res, "status", "error")

\* fetch_brave_usage, the inner try block around the usage-info call: its
\* bare except swallows a network error and a body that is not JSON alike
brave_usage_handler(res, resp) ==
    IF /\ resp.kind = "response"
       /\ resp.status_code = 200
       /\ resp.json.type # "JSONDecodeError"
    THEN Put(res, "usage", resp.json)
    ELSE res

\* the result for an unsupported provider that does not name the provider
unsupported_result_Unnamed(provider, key) ==
    [ status |-> "unsupported",
      message |-> "Unsupported API provider",
      error |-> "API key format not recognized: " \o Take(key, 10) \o "..." ]

\* fetch_api_usage, the result for a provider without a probe
unsupported_result(provider, key) ==
    [ status |-> "unsupported",
      message |-> "Unsupported API provider: " \o provider,
      error |-> "API key format not recognized: " \o Take(key, 10) \o "..." ]

\* the outbound calls: the URL requested, the secret sent in its header and
\* the response (or exception) that came back
Call(url, key, resp) == [url |-> url, key |-> key, response |-> resp]

OPENAI_USAGE_URL == "https://api.openai.com/v1/organization/usage/completions"
OPENAI_COSTS_URL == "https://api.openai.com/v1/organization/costs"
ANTHROPIC_MESSAGES_URL == "https://api.anthropic.com/v1/messages"
BRAVE_SEARCH_URL == "https://api.search.brave.com/res/v1/web/search"
BRAVE_USAGE_URL == "https://api.search.brave.com/res/v1/usage"

----------------------------------------------------------------------------
(* The probe as a state machine.                                           *)

\* A probe starts as a call of fetch_api_usage with some key.  The classifier
\* never answers 'anthropic' (see detect_key_type), so fetch_anthropic_usage
\* is also started by a direct call.
ProbeInit ==
    /\ entry \in {"fetch_api_usage", "fetch_anthropic_usage"}
    /\ api_key \in Keys
    /\ pc = entry
    /\ key_info = NoKeyInfo
    /\ result = EmptyDict
    /\ has_usage = FALSE
    /\ has_costs = FALSE
    /\ calls = <<>>
    /\ exc = "None"
    /\ json_caught \in BOOLEAN

\* no probe is running
ProbeIdle ==
    /\ entry = "none"
    /\ api_key = ""
    /\ pc = "idle"
    /\ key_info = NoKeyInfo
    /\ result = EmptyDict
    /\ has_usage = FALSE
    /\ has_costs = FALSE
    /\ calls = <<>>
    /\ exc = "None"
    /\ json_caught = TRUE

\* get_error_details has not been called
NoExplanation == [icon |-> "", title |-> "", description |-> "", solutions |-> <<>>]
ExplainIdle ==
    /\ raw_message = ""
    /\ http_status = NoStatusCode
    /\ explanation = NoExplanation

\* a response of the server.  body: the dicts of the JSON body (by key id, or
\* by entry name for /api/usage); error: its 'error' entry; calls: the
\* outbound calls the handler made before it answered
Response(endpoint, status, error, body) ==
    [endpoint |-> endpoint, status |-> status, error |-> error, body |-> body,
     calls |-> <<>>]
NoResponse == Response("none", NoStatusCode, "", EmptyDict)

\* The database after init_database and one POST /api/accounts: the default
\* account and a second one, no key.  No request has been answered.
StoreInit ==
    /\ accounts = AccountIds
    /\ api_keys = EmptyDict
    /\ next_key_id = 1
    /\ response = NoResponse

Init ==
    /\ ProbeInit
    /\ ExplainIdle
    /\ StoreInit

\* fetch_api_usage: classify the key and select the provider's sequence
fetch_api_usage ==
    /\ pc = "fetch_api_usage"
    /\ key_info' = detect_key_type(api_key)
    /\ LET provider == key_info'.provider IN
         IF provider = "openai"
         THEN pc' = "fetch_openai_usage" /\ result' = result
         ELSE IF provider = "anthropic"
         THEN pc' = "fetch_anthropic_usage" /\ result' = result
         ELSE IF provider = "brave"
         THEN pc' = "fetch_brave_usage" /\ result' = result
         ELSE pc' = "done" /\ result' = unsupported_result(provider, api_key)
    /\ UNCHANGED <<entry, api_key, has_usage, has_costs, calls, exc, json_caught>>
    /\ UNCHANGED nonProbeVars

\* the usage call issued again after a network failure
OpenAIUsageStep_Retry ==
    /\ pc = "fetch_openai_usage"
    /\ \E resp \in Responses :
         LET out == openai_usage_handler([provider |-> "openai"], resp, json_caught) IN
           /\ calls' = Append(calls, Call(OPENAI_USAGE_URL, api_key, resp))
           /\ result' = out.result
           /\ has_usage' = out.has
           /\ has_costs' = FALSE
           /\ exc' = out.exc
           /\ pc' = IF resp.kind = "RequestException" THEN "fetch_openai_usage"
                    ELSE IF out.exc = "None" THEN "openai_costs" ELSE "raised"
    /\ UNCHANGED <<entry, api_key, key_info, json_caught>>
    /\ UNCHANGED nonProbeVars

\* fetch_openai_usage up to the end of the usage call's try block
OpenAIUsageStep ==
    /\ pc = "fetch_openai_usage"
    /\ \E resp \in Responses :
         LET out == openai_usage_handler([provider |-> "openai"], resp, json_caught) IN
           /\ calls' = Append(calls, Call(OPENAI_USAGE_URL, api_key, resp))
           /\ result' = out.result
           /\ has_usage' = out.has
           /\ has_costs' = FALSE
           /\ exc' = out.exc
           /\ pc' = IF out.exc = "None" THEN "openai_costs" ELSE "raised"
    /\ UNCHANGED <<entry, api_key, key_info, json_caught>>
    /\ UNCHANGED nonProbeVars

\* fetch_openai_usage from the costs call to its return
OpenAICostsStep ==
    /\ pc = "openai_costs"
    /\ \E resp \in Responses :
         LET out == openai_costs_handler(result, resp, json_caught) IN
           /\ calls' = Append(calls, Call(OPENAI_COSTS_URL, api_key, resp))
           /\ has_costs' = out.has
           /\ exc' = out.exc
           /\ IF out.exc = "None"
              THEN /\ result' = openai_final_status(out.result, has_usage, out.has)
                   /\ pc' = "done"
              ELSE /\ result' = out.result
                   /\ pc' = "raised"
    /\ UNCHANGED <<entry, api_key, key_info, has_usage, json_caught>>
    /\ UNCHANGED nonProbeVars

\* fetch_anthropic_usage
AnthropicStep ==
    /\ pc = "fetch_anthropic_usage"
    /\ \E resp \in Responses :
         /\ calls' = Append(calls, Call(ANTHROPIC_MESSAGES_URL, api_key, resp))
         /\ result' = anthropic_handler([provider |-> "anthropic"], resp)
    /\ pc' = "done"
    /\ UNCHANGED <<entry, api_key, key_info, has_usage, has_costs, exc, json_caught>>
    /\ UNCHANGED nonProbeVars

\* fetch_brave_usage up to the search call's response: on 200 the usage-info
\* call follows, otherwise the function returns
BraveSearchStep ==
    /\ pc = "fetch_brave_usage"
    /\ \E resp \in Responses :
         /\ calls' = Append(calls, Call(BRAVE_SEARCH_URL, api_key, resp))
         /\ result' = brave_search_handler([provider |-> "brave"], resp)
         /\ pc' = IF resp.kind = "response" /\ resp.status_code = 200
                  THEN "brave_usage" ELSE "done"
    /\ UNCHANGED <<entry, api_key, key_info, has_usage, has_costs, exc, json_caught>>
    /\ UNCHANGED nonProbeVars

\* fetch_brave_usage from the usage-info call to its return
BraveUsageStep ==
    /\ pc = "brave_usage"
    /\ \E resp \in Responses :
         /\ calls' = Append(calls, Call(BRAVE_USAGE_URL, api_key, resp))
         /\ result' = brave_usage_handler(result, resp)
    /\ pc' = "done"
    /\ UNCHANGED <<entry, api_key, key_info, has_usage, has_costs, exc, json_caught>>
    /\ UNCHANGED nonProbeVars

Next ==
    \/ fetch_api_usage
    \/ OpenAIUsageStep
    \/ OpenAICostsStep
    \/ AnthropicStep
    \/ BraveSearchStep
    \/ BraveUsageStep

Spec == Init /\ [][Next]_vars

----------------------------------------------------------------------------
(* get_error_details called on its own: the message and the status code    *)
(* are drawn at the start, Explain applies the function.                    *)

RawMessages ==
    { "", "Missing scopes",
      "You have insufficient permissions for this operation. Missing scopes: api.usage.read",
      "Project does not have access: api.model.read is required",
      "missing scopes", "Incorrect API key provided", "Rate limit reached for requests",
      "Read timed out", "The server had an error while processing your request" }

\* the codes of StatusCodes, two more codes the table does not list, and no code
ExplainCodes == StatusCodes \cup {400, 503, NoStatusCode}

InitExplain ==
    /\ ProbeIdle
    /\ StoreInit
    /\ raw_message \in RawMessages
    /\ http_status \in ExplainCodes
    /\ explanation = NoExplanation

Explain ==
    /\ explanation = NoExplanation
    /\ explanation' = get_error_details(raw_message, http_status)
    /\ UNCHANGED <<probeVars, storeVars, raw_message, http_status>>

NextExplain == Explain

SpecExplain == InitExplain /\ [][NextExplain]_vars

----------------------------------------------------------------------------
(* The REST endpoints of the key store.  One request is one action: the    *)
(* handler runs to its return.                                             *)

\* secrets a client submits: an admin key longer than 20 characters, a short
\* project key, and one that the format check refuses
AdminSecret == "sk-admin-" \o Pad(12)
ProjectSecret == "sk-proj-" \o Pad(2)
RefusedSecret == "gsk_" \o Pad(2)

KeyIds == 1..MaxKeys

\* The JSON body of POST /api/keys (account_id NoneId is null or absent) and
\* of PUT /api/keys/<key_id> (full_key "" is an absent or blank one;
\* has_account_id tells 'account_id' in data).
\* The requests about names and accounts: two names, both accounts and none,
\* one secret, no link to an admin key.
AddRequests ==
    [ name : {"a", "b"}, full_key : {ProjectSecret, RefusedSecret},
      account_id : AccountIds \cup {NoneId}, admin_key_id : {NoneId} ]
UpdateRequests ==
    { r \in [ name : {"a", "b"}, full_key : {"", ProjectSecret, RefusedSecret},
              has_account_id : BOOLEAN, account_id : AccountIds \cup {NoneId},
              admin_key_id : {NoneId} ] :
        ~r.has_account_id => r.account_id = NoneId }

\* The requests about secrets and links: one name, both accounts, admin and
\* project secrets, keys linked to key 1 or to none; an update keeps the
\* name and the account.
LinkedAddRequests ==
    [ name : {"a"}, full_key : {AdminSecret, ProjectSecret, RefusedSecret},
      account_id : AccountIds \cup {NoneId}, admin_key_id : {NoneId, 1} ]
LinkedUpdateRequests ==
    [ name : {"a"}, full_key : {"", ProjectSecret},
      has_account_id : {FALSE}, account_id : {NoneId},
      admin_key_id : {NoneId, 1} ]

NameExistsError == "API key name already exists for this account"
InvalidFormatError ==
    "Invalid API key format - must start with sk- (OpenAI/Anthropic) or BSA (Brave)"
AccountRequiredError == "Account ID is required"
KeyNotFoundError == "API key not found"
AccountNotFoundError == "Account not found"

Rejected(endpoint, status, error) ==
    /\ response' = Response(endpoint, status, error, EmptyDict)
    /\ UNCHANGED <<accounts, api_keys, next_key_id>>

\* POST /api/keys
AddKey(req) ==
    /\ next_key_id <= MaxKeys
    /\ IF ~valid_key_format(req.full_key)
       THEN Rejected("add_key_endpoint", 400, InvalidFormatError)
       ELSE IF req.account_id = NoneId
       THEN Rejected("add_key_endpoint", 400, AccountRequiredError)
       ELSE LET info == detect_key_type(req.full_key) IN
            IF check_name_exists(api_keys, req.name, req.account_id, NoneId)
            THEN Rejected("add_key_endpoint", 400, NameExistsError)
            ELSE /\ api_keys' = Put(api_keys, next_key_id,
                                    KeyRow(req.name, req.full_key, info.type,
                                           info.provider, req.account_id,
                                           req.admin_key_id))
                 /\ next_key_id' = next_key_id + 1
                 /\ response' = Response("add_key_endpoint", 201, "",
                        Put(EmptyDict, next_key_id,
                            [ id |-> next_key_id, name |-> req.name,
                              key |-> mask_api_key(req.full_key),
                              key_type |-> info.type, provider |-> info.provider ]))
                 /\ UNCHANGED accounts
    /\ UNCHANGED <<probeVars, explainVars>>

add_key_endpoint == \E req \in AddRequests : AddKey(req)

\* PUT /api/keys/<key_id>
UpdateKey(key_id, req) ==
    /\ IF key_id \notin DOMAIN api_keys
       THEN Rejected("update_key_endpoint", 404, KeyNotFoundError)
       ELSE LET key == api_keys[key_id]
                account_id == IF req.has_account_id THEN req.account_id
                              ELSE key.account_id
            IN  IF check_name_exists(api_keys, req.name, account_id, key_id)
                THEN Rejected("update_key_endpoint", 400, NameExistsError)
                ELSE IF req.full_key # "" /\ ~valid_key_format(req.full_key)
                THEN Rejected("update_key_endpoint", 400, InvalidFormatError)
                ELSE LET updated_key == update_key(key, req.name, req.full_key,
                                                   account_id, req.admin_key_id)
                     IN  /\ api_keys' = Put(api_keys, key_id, updated_key)
                         /\ response' = Response("update_key_endpoint", 200, "",
                                Put(EmptyDict, key_id,
                                    [ id |-> key_id, name |-> updated_key.name,
                                      key |-> updated_key.masked_key,
                                      key_type |-> updated_key.key_type,
                                      account_id |-> updated_key.account_id,
                                      admin_key_id |-> updated_key.admin_key_id ]))
                         /\ UNCHANGED <<accounts, next_key_id>>
    /\ UNCHANGED <<probeVars, explainVars>>

update_key_endpoint == \E key_id \in KeyIds, req \in UpdateRequests : UpdateKey(key_id, req)

add_linked_key == \E req \in LinkedAddRequests : AddKey(req)

update_linked_key ==
    \E key_id \in KeyIds, req \in LinkedUpdateRequests : UpdateKey(key_id, req)

\* DELETE /api/keys/<key_id>
delete_key_endpoint ==
    /\ \E key_id \in KeyIds :
          IF key_id \notin DOMAIN api_keys
          THEN Rejected("delete_key_endpoint", 404, KeyNotFoundError)
          ELSE /\ api_keys' = Without(api_keys, {key_id})
               /\ response' = Response("delete_key_endpoint", 200, "", EmptyDict)
               /\ UNCHANGED <<accounts, next_key_id>>
    /\ UNCHANGED <<probeVars, explainVars>>

\* DELETE /api/accounts/<account_id>
delete_account_endpoint ==
    /\ \E account_id \in AccountIds :
          IF account_id \notin accounts
          THEN Rejected("delete_account_endpoint", 404, AccountNotFoundError)
          ELSE /\ api_keys' = Without(api_keys,
                     {i \in DOMAIN api_keys : api_keys[i].account_id = account_id})
               /\ accounts' = accounts \ {account_id}
               /\ response' = Response("delete_account_endpoint", 200, "", EmptyDict)
               /\ UNCHANGED next_key_id
    /\ UNCHANGED <<probeVars, explainVars>>

\* GET /api/keys
get_keys ==
    /\ response' = Response("get_keys", 200, "",
          [ i \in DOMAIN api_keys |->
              LET key == JoinedRow(api_keys, accounts, i) IN
              [ id |-> key.id, name |-> key.name, key |-> key.masked_key,
                key_type |-> key.key_type, provider |-> key.provider,
                account_id |-> key.account_id, admin_key_id |-> key.admin_key_id,
                admin_name |-> key.admin_name, account_email |-> key.account_email ] ])
    /\ UNCHANGED <<accounts, api_keys, next_key_id>>
    /\ UNCHANGED <<probeVars, explainVars>>

\* GET /api/keys/<key_id>/full
get_full_key ==
    /\ \E key_id \in KeyIds :
          IF key_id \notin DOMAIN api_keys
          THEN Rejected("get_full_key", 404, KeyNotFoundError)
          ELSE /\ response' = Response("get_full_key", 200, "",
                      Put(EmptyDict, key_id, [full_key |-> api_keys[key_id].full_key]))
               /\ UNCHANGED <<accounts, api_keys, next_key_id>>
    /\ UNCHANGED <<probeVars, explainVars>>

\* GET /api/debug: SELECT * FROM api_keys
debug_database ==
    /\ response' = Response("debug_database", 200, "",
          [ i \in DOMAIN api_keys |->
              [ id |-> i, name |-> api_keys[i].name, full_key |-> api_keys[i].full_key,
                masked_key |-> api_keys[i].masked_key,
                key_type |-> api_keys[i].key_type, provider |-> api_keys[i].provider,
                account_id |-> api_keys[i].account_id,
                admin_key_id |-> api_keys[i].admin_key_id ] ])
    /\ UNCHANGED <<accounts, api_keys, next_key_id>>
    /\ UNCHANGED <<probeVars, explainVars>>

InitStore ==
    /\ ProbeIdle
    /\ ExplainIdle
    /\ StoreInit

NextStore ==
    \/ add_key_endpoint
    \/ update_key_endpoint
    \/ delete_key_endpoint
    \/ delete_account_endpoint
    \/ get_keys
    \/ get_full_key
    \/ debug_database

SpecStore == InitStore /\ [][NextStore]_vars

----------------------------------------------------------------------------
(* GET /api/usage: get_usage probes the admin keys one after the other and *)
(* lists the orphaned project keys.  The whole request is one action; the  *)
(* providers' answers to the calls of each probe are chosen with it.       *)

\* what the providers answer during a usage request: 200 with a usage body,
\* 200 with a JSON body that is no dict, and a refusal
UsageResponses ==
    { [kind |-> "response", status_code |-> 200,
       text |-> BodyText([type |-> "dict", data |-> "list"]),
       json |-> [type |-> "dict", data |-> "list"]],
      [kind |-> "response", status_code |-> 200,
       text |-> BodyText([type |-> "list", data |-> "absent"]),
       json |-> [type |-> "list", data |-> "absent"]],
      [kind |-> "response", status_code |-> 401,
       text |-> "Incorrect API key provided", json |-> NotJson] }

ProbeRun(res, made, e) == [result |-> res, calls |-> made, exc |-> e]

\* fetch_api_usage as a function of the key and of the answers to its first
\* and second call: the result, the calls made and the exception that leaves it
fetch_api_usage_run(key, answers, caught) ==
    LET provider == detect_key_type(key).provider IN
    IF provider = "openai" THEN
        LET usage == openai_usage_handler([provider |-> "openai"], answers[1], caught)
            costs == openai_costs_handler(usage.result, answers[2], caught)
            usage_call == Call(OPENAI_USAGE_URL, key, answers[1])
            costs_call == Call(OPENAI_COSTS_URL, key, answers[2])
        IN  IF usage.exc # "None"
            THEN ProbeRun(usage.result, <<usage_call>>, usage.exc)
            ELSE IF costs.exc # "None"
            THEN ProbeRun(costs.result, <<usage_call, costs_call>>, costs.exc)
            ELSE ProbeRun(openai_final_status(costs.result, usage.has, costs.has),
                          <<usage_call, costs_call>>, "None")
    ELSE IF provider = "anthropic" THEN
        ProbeRun(anthropic_handler([provider |-> "anthropic"], answers[1]),
                 <<Call(ANTHROPIC_MESSAGES_URL, key, answers[1])>>, "None")
    ELSE IF provider = "brave" THEN
        LET search == brave_search_handler([provider |-> "brave"], answers[1])
            search_call == Call(BRAVE_SEARCH_URL, key, answers[1])
        IN  IF answers[1].kind = "response" /\ answers[1].status_code = 200
            THEN ProbeRun(brave_usage_handler(search, answers[2]),
                          <<search_call, Call(BRAVE_USAGE_URL, key, answers[2])>>, "None")
            ELSE ProbeRun(search, <<search_call>>, "None")
    ELSE ProbeRun(unsupported_result(provider, key), <<>>, "None")

\* ORDER BY a.email, k.name: NULL first, then the order of the strings
EmailOrder == <<"None", "second@example.com", "user@example.com">>
NameOrder == <<"a", "b">>
Rank(order, x) == CHOOSE n \in 1..Len(order) : order[n] = x
SortsBefore(k1, k2) ==
    \/ Rank(EmailOrder, k1.account_email) < Rank(EmailOrder, k2.account_email)
    \/ /\ k1.account_email = k2.account_email
       /\ Rank(NameOrder, k1.name) <= Rank(NameOrder, k2.name)

\* get_all_keys: the joined rows in an order the ORDER BY clause allows (the
\* order of rows with the same email and name is the database's choice)
get_all_keys(table, accts) ==
    LET n == Cardinality(DOMAIN table)
        row(i) == JoinedRow(table, accts, i)
    IN  { [p \in 1..n |-> row(ids[p])] :
            ids \in { o \in [1..n -> DOMAIN table] :
                        /\ \A p, q \in 1..n : o[p] = o[q] => p = q
                        /\ \A p, q \in 1..n :
                             p < q => SortsBefore(row(o[p]), row(o[q])) } }

\* f"{key['name']} - {key['account_email']}"
unique_key_name(key) == key.name \o " - " \o key.account_email

\* an entry of the report; usage_data is what ** spreads into it
UsageEntry(key, status, usage_data, associated_projects) ==
    [ id |-> key.id, name |-> key.name, key |-> key.masked_key,
      key_type |-> key.key_type, account_email |-> key.account_email,
      status |-> status, usage_data |-> usage_data,
      associated_project_keys |-> associated_projects ]

\* the loop over admin_keys: results, the calls made and the exception of a
\* probe, which ends the loop and the request
RECURSIVE probe_admin_keys(_, _, _, _, _, _)
probe_admin_keys(admin_keys, project_keys, results, made, answers, caught) ==
    IF admin_keys = <<>> THEN ProbeRun(results, made, "None")
    ELSE LET admin_key == Head(admin_keys)
             run == fetch_api_usage_run(admin_key.full_key, answers[admin_key.id], caught)
             associated_projects ==
                 { project_keys[p].id : p \in { q \in 1..Len(project_keys) :
                       project_keys[q].admin_key_id = admin_key.id } }
         IN  IF run.exc # "None"
             THEN ProbeRun(results, made \o run.calls, run.exc)
             ELSE probe_admin_keys(Tail(admin_keys), project_keys,
                      Put(results, unique_key_name(admin_key),
                          UsageEntry(admin_key, run.result.status, run.result,
                                     associated_projects)),
                      made \o run.calls, answers, caught)

\* the loop over orphaned_projects
RECURSIVE add_orphaned_projects(_, _)
add_orphaned_projects(project_keys, results) ==
    IF project_keys = <<>> THEN results
    ELSE LET key == Head(project_keys) IN
         add_orphaned_projects(Tail(project_keys),
             IF key.admin_key_id = NoneId
             THEN Put(results, unique_key_name(key),
                      UsageEntry(key, "info_only", EmptyDict, {}))
             ELSE results)

\* GET /api/usage
get_usage ==
    /\ \E all_keys \in get_all_keys(api_keys, accounts) :
         LET IsAdmin(key) == key.key_type = "admin"
             IsProject(key) == key.key_type = "project"
             admin_keys == SelectSeq(all_keys, IsAdmin)
             project_keys == SelectSeq(all_keys, IsProject)
             admin_ids == { admin_keys[p].id : p \in 1..Len(admin_keys) }
         IN  \E answers \in [admin_ids -> UsageResponses \X UsageResponses] :
               LET run == probe_admin_keys(admin_keys, project_keys, EmptyDict,
                                           <<>>, answers, json_caught)
               IN  response' =
                     [ (IF run.exc # "None"
                        THEN Response("get_usage", 500, run.exc, EmptyDict)
                        ELSE Response("get_usage", 200, "",
                                 add_orphaned_projects(project_keys, run.result)))
                       EXCEPT !.calls = run.calls ]
    /\ UNCHANGED <<accounts, api_keys, next_key_id>>
    /\ UNCHANGED <<probeVars, explainVars>>

InitUsage ==
    /\ ProbeIdle
    /\ ExplainIdle
    /\ StoreInit

NextUsage ==
    \/ add_linked_key
    \/ update_linked_key
    \/ delete_key_endpoint
    \/ delete_account_endpoint
    \/ get_keys
    \/ get_full_key
    \/ debug_database
    \/ get_usage

SpecUsage == InitUsage /\ [][NextUsage]_vars

----------------------------------------------------------------------------
(* Vocabulary of the properties.                                           *)

\* the call came back with HTTP 200
Returned200(c) == c.response.kind = "response" /\ c.response.status_code = 200

\* the call came back with HTTP 200 and a body that response.json() parses
Returned200Json(c) == Returned200(c) /\ c.response.json.type # "JSONDecodeError"

\* the probe (a call of this provider's sequence) is over: it returned or raised
ProbeOver == pc \in {"done", "raised"}
OpenAIProbe == Len(calls) >= 1 /\ calls[1].url = OPENAI_USAGE_URL
AnthropicProbe == Len(calls) >= 1 /\ calls[1].url = ANTHROPIC_MESSAGES_URL
BraveProbe == Len(calls) >= 1 /\ calls[1].url = BRAVE_SEARCH_URL

\* fetch_api_usage has classified the key
Classified == entry = "fetch_api_usage" /\ pc # "fetch_api_usage"

\* the number of the probe's calls that returned 200
Count200 == Cardinality({i \in 1..Len(calls) : Returned200(calls[i])})

----------------------------------------------------------------------------
(* C1: whatever the usage call and the costs call of the OpenAI probe      *)
(* return (200, another status, a network failure), fetch_openai_usage     *)
(* returns status 'success' iff both returned 200, 'partial' iff exactly   *)
(* one did and 'no_usage_access' iff neither did, the last with a message. *)
C1_StatusFollowsCalls ==
    (OpenAIProbe /\ ProbeOver) =>
        /\ pc = "done"
        /\ Len(calls) = 2
        /\ (result.status = "success") <=> (Count200 = 2)
        /\ (result.status = "partial") <=> (Count200 = 1)
        /\ (result.status = "no_usage_access") <=> (Count200 = 0)
        /\ (Count200 = 0) => ("message" \in DOMAIN result)

(* C2: a probe never raises: whatever each outbound call returns (200 with *)
(* a well-formed, malformed or unexpected body, another status, a network  *)
(* failure), the probe ends by returning a result that carries a status.   *)
C2_ProbeNeverRaises ==
    /\ pc # "raised"
    /\ exc = "None"
    /\ (pc = "done") => ("status" \in DOMAIN result)

(* C3: for a key whose provider has no probe, fetch_api_usage issues no    *)
(* outbound call and returns status 'unsupported' with a message that      *)
(* names the detected provider.                                            *)
C3_UnsupportedWithoutCall ==
    (Classified /\ key_info.provider \notin {"openai", "anthropic", "brave"}) =>
        /\ pc = "done"
        /\ calls = <<>>
        /\ result.status = "unsupported"
        /\ Contains(result.message, key_info.provider)

C3_Witness ==
    /\ Classified
    /\ key_info.provider = "unknown"
    /\ pc = "done"
    /\ startswith(api_key, "gsk_")

(* C4: every key that starts with 'sk-ant-' classifies as (anthropic,      *)
(* project), never as an OpenAI key, and its probe runs the Anthropic      *)
(* sequence.                                                               *)
C4_AnthropicPrefixFirst ==
    (Classified /\ startswith(api_key, "sk-ant-")) =>
        /\ key_info = Classification("anthropic", "project")
        /\ \A i \in 1..Len(calls) : calls[i].url = ANTHROPIC_MESSAGES_URL

(* C5: every key that starts with 'sk-admin-' classifies as (openai,       *)
(* admin) and every key that starts with 'sk-proj-' as (openai, project),  *)
(* whatever follows the prefix and whatever the length.                    *)
C5_AdminAndProjectPrefixes ==
    Classified =>
        /\ startswith(api_key, "sk-admin-") => key_info = Classification("openai", "admin")
        /\ startswith(api_key, "sk-proj-") => key_info = Classification("openai", "project")

C5_Witness ==
    /\ Classified
    /\ startswith(api_key, "sk-admin-")
    /\ Len(api_key) > 60
    /\ key_info = Classification("openai", "admin")

\* a key with the bare 'sk-' prefix: none of the three longer prefixes
BareSk(key) ==
    /\ startswith(key, "sk-")
    /\ ~startswith(key, "sk-admin-")
    /\ ~startswith(key, "sk-proj-")
    /\ ~startswith(key, "sk-ant-")

(* C6: a key with the bare 'sk-' prefix classifies as (openai, project)    *)
(* when it is at most 60 characters long and as (deepseek, api) when it is *)
(* longer.                                                                 *)
C6_BareSkByLength ==
    (Classified /\ BareSk(api_key)) =>
        key_info = IF Len(api_key) <= 60
                   THEN Classification("openai", "project")
                   ELSE Classification("deepseek", "api")

\* the pairs detect_key_type can answer with, and the prefixes of its rules
Classifications ==
    { Classification("openai", "admin"), Classification("openai", "project"),
      Classification("anthropic", "project"), Classification("brave", "search"),
      Classification("unknown", "unknown") }
RulePrefixes == {"sk-admin-", "sk-proj-", "sk-", "sk-ant-", "BSA"}

(* C7: detect_key_type is total: for every key, the empty one and those    *)
(* shorter than any prefix included, it answers one (provider, type) pair  *)
(* without raising, and (unknown, unknown) when no rule matches.           *)
C7_ClassifyTotal ==
    Classified =>
        /\ key_info \in Classifications
        /\ (\A p \in RulePrefixes : ~startswith(api_key, p))
              => key_info = Classification("unknown", "unknown")

C7_Witness ==
    /\ Classified
    /\ api_key = ""
    /\ key_info = Classification("unknown", "unknown")

(* C8: the two steps of the OpenAI probe are independent: the costs call   *)
(* is issued after the usage call whatever the usage call returned, and    *)
(* the result holds 'usage' iff the usage call returned 200 and otherwise  *)
(* 'usage_error' with an explanation, and 'costs' iff the costs call       *)
(* returned 200 and otherwise 'costs_error' with an explanation.           *)
C8_OpenAIStepsIndependent ==
    (OpenAIProbe /\ ProbeOver) =>
        /\ Len(calls) = 2
        /\ calls[2].url = OPENAI_COSTS_URL
        /\ pc = "done"
        /\ ("usage" \in DOMAIN result) <=> Returned200(calls[1])
        /\ ("usage_error" \in DOMAIN result) <=> ~Returned200(calls[1])
        /\ ~Returned200(calls[1]) => "error_details" \in DOMAIN result.usage_error
        /\ ("costs" \in DOMAIN result) <=> Returned200(calls[2])
        /\ ("costs_error" \in DOMAIN result) <=> ~Returned200(calls[2])
        /\ ~Returned200(calls[2]) => "error_details" \in DOMAIN result.costs_error
        /\ (Returned200(calls[1]) /\ calls[2].response.status_code = 403)
              => result.status = "partial"

(* C9: in the Brave probe the usage-info call is issued only after the     *)
(* search call returned 200; a failed usage-info call (another status, a   *)
(* network error, a body that is not JSON) leaves the status 'success' and *)
(* attaches no usage payload, a usage-info call that returned 200 with a   *)
(* JSON body attaches it; a search call that did not return 200 gives      *)
(* status 'error' and no usage-info call.                                  *)
C9_BraveUsageBestEffort ==
    /\ \A i \in 1..Len(calls) :
          calls[i].url = BRAVE_USAGE_URL =>
              i = 2 /\ BraveProbe /\ Returned200(calls[1])
    /\ (BraveProbe /\ pc = "brave_usage") => Returned200(calls[1])
    /\ (BraveProbe /\ ProbeOver) =>
          /\ pc = "done"
          /\ IF Returned200(calls[1])
             THEN /\ Len(calls) = 2
                  /\ calls[2].url = BRAVE_USAGE_URL
                  /\ result.status = "success"
                  /\ ("usage" \in DOMAIN result) <=> Returned200Json(calls[2])
             ELSE /\ Len(calls) = 1
                  /\ result.status = "error"
                  /\ "usage" \notin DOMAIN result

C9_Witness ==
    /\ BraveProbe
    /\ pc = "done"
    /\ Len(calls) = 2
    /\ ~Returned200(calls[2])
    /\ result.status = "success"
    /\ "usage" \notin DOMAIN result

(* C10: the Anthropic probe makes one call: 200 gives status 'success'     *)
(* with a message that no usage API exists; any other status gives         *)
(* 'error' with the explanation get_error_details maps from the body and   *)
(* the status code; a network failure gives 'error' with the explanation   *)
(* mapped without a status code.                                           *)
C10_AnthropicSingleCall ==
    (AnthropicProbe /\ ProbeOver) =>
        /\ pc = "done"
        /\ Len(calls) = 1
        /\ LET r == calls[1].response IN
             IF Returned200(calls[1])
             THEN /\ result.status = "success"
                  /\ Contains(result.message, "no usage API")
                  /\ "error" \notin DOMAIN result
             ELSE IF r.kind = "response"
             THEN /\ result.status = "error"
                  /\ result.error_details = get_error_details(r.text, r.status_code)
             ELSE /\ result.status = "error"
                  /\ result.error_details = get_error_details(r.text, NoStatusCode)
                  /\ result.error_details.title = "Unknown Error"
                  /\ result.error_details.description = r.text

C10_Witness ==
    /\ AnthropicProbe
    /\ pc = "done"
    /\ calls[1].response.status_code = 403
    /\ result.status = "error"
    /\ result.error_details.title = "Permission Denied"

----------------------------------------------------------------------------
(* Vocabulary of the properties of get_error_details.                      *)

\* get_error_details has returned
Explained == explanation # NoExplanation

\* the message carries one of the permission-scope phrases
ScopePhrase(m) == Contains(m, "Missing scopes") \/ Contains(m, "api.model.read")

\* the title of the table's entry for a status code
BespokeTitle(code) ==
    CASE code = 401 -> "Authentication Failed"
      [] code = 403 -> "Permission Denied"
      [] code = 404 -> "Endpoint Not Found"
      [] code = 429 -> "Rate Limited"
      [] code = 500 -> "OpenAI Server Error"

(* C11: get_error_details returns the 'Insufficient API Key Scopes'        *)
(* explanation whenever the message contains 'Missing scopes', for every   *)
(* status code, a code of the table, another code or no code.              *)
C11_ScopesBeforeTable ==
    (Explained /\ Contains(raw_message, "Missing scopes")) =>
        /\ explanation.title = "Insufficient API Key Scopes"
        /\ explanation = InsufficientScopes

C11_Witness ==
    /\ Explained
    /\ Contains(raw_message, "Missing scopes")
    /\ http_status = 403
    /\ explanation.title = "Insufficient API Key Scopes"

(* C12, as stated: get_error_details called with status code 429 returns   *)
(* the 'Rate Limited' explanation for any message whatsoever.              *)
C12_RateLimitedAnyMessage ==
    (Explained /\ http_status = 429) => explanation.title = "Rate Limited"

(* C12, amended: get_error_details called with status code 429 returns     *)
(* the 'Rate Limited' explanation for any message that contains neither    *)
(* 'Missing scopes' nor 'api.model.read'.                                  *)
C12_RateLimitedWithoutScopePhrase ==
    (Explained /\ http_status = 429 /\ ~ScopePhrase(raw_message)) =>
        explanation.title = "Rate Limited"

C12_Witness ==
    /\ Explained
    /\ http_status = 429
    /\ raw_message = "Incorrect API key provided"
    /\ explanation.title = "Rate Limited"

(* C13: for a message without a permission-scope phrase,                   *)
(* get_error_details returns the table's entry exactly when the status     *)
(* code is 401, 403, 404, 429 or 500; for every other code and for no code *)
(* it returns 'Unknown Error' with the message as its description.         *)
C13_TableOrUnknown ==
    (Explained /\ ~ScopePhrase(raw_message)) =>
        IF http_status \in {401, 403, 404, 429, 500}
        THEN explanation.title = BespokeTitle(http_status)
        ELSE /\ explanation.title = "Unknown Error"
             /\ explanation.description = raw_message

C13_Witness ==
    /\ Explained
    /\ http_status = 418
    /\ raw_message = "Incorrect API key provided"
    /\ explanation.title = "Unknown Error"
    /\ explanation.description = raw_message

(* C14: for a Groq, Perplexity or xAI key (prefix 'gsk_', 'pplx-' or       *)
(* 'xai-') the probe makes exactly one liveness call and returns 'success' *)
(* or 'error' without a usage payload; it does not return 'unsupported'.   *)
C14_GroqPerplexityXaiProbed ==
    (/\ Classified
     /\ ProbeOver
     /\ \E p \in {"gsk_", "pplx-", "xai-"} : startswith(api_key, p)) =>
        /\ Len(calls) = 1
        /\ result.status \in {"success", "error"}
        /\ "usage" \notin DOMAIN result

\* every character of the key is a lowercase hexadecimal digit
IsLowerHex(key) ==
    \A i \in 1..Len(key) :
        \E d \in 1..Len(HexDigits) : SubSeq(key, i, i) = SubSeq(HexDigits, d, d)

(* C15: a 32-character lowercase-hexadecimal key without a recognized      *)
(* prefix classifies as (newsapi_org, news) and a 64-character one as      *)
(* (serpapi, search), not as (unknown, unknown).                           *)
C15_HexShapes ==
    (Classified /\ IsLowerHex(api_key)) =>
        /\ Len(api_key) = 32 => key_info = Classification("newsapi_org", "news")
        /\ Len(api_key) = 64 => key_info = Classification("serpapi", "search")

\* the number of steps the probe can still take from its position
StepsLeft ==
    CASE pc = "fetch_api_usage" -> 3
      [] pc \in {"fetch_openai_usage", "fetch_brave_usage"} -> 2
      [] pc \in {"openai_costs", "brave_usage", "fetch_anthropic_usage"} -> 1
      [] OTHER -> 0

(* C20: no retries: within one probe every endpoint is called at most      *)
(* once, a failed call is never issued again, a probe issues at most 3     *)
(* outbound calls whatever the calls return, and every step brings the     *)
(* probe closer to its end, so that it terminates.                         *)
C20_NoRetries ==
    /\ [](/\ Len(calls) <= 3
          /\ \A i, j \in 1..Len(calls) : calls[i].url = calls[j].url => i = j)
    /\ [][/\ StepsLeft' < StepsLeft
          /\ Len(calls') <= Len(calls) + 1]_vars

C20_Witness ==
    /\ OpenAIProbe
    /\ pc = "done"
    /\ Len(calls) = 2
    /\ calls[1].response.kind = "RequestException"
    /\ calls[2].response.kind = "RequestException"

----------------------------------------------------------------------------
(* Vocabulary of the properties of the key store.                          *)

\* a stored key other than key `except` has this name in this account
NameTaken(name, account_id, except) ==
    \E i \in DOMAIN api_keys \ {except} :
        /\ account_id # NoneId
        /\ api_keys[i].account_id = account_id
        /\ api_keys[i].name = name

\* the account a PUT request puts the key in
TargetAccount(key_id, req) ==
    IF req.has_account_id THEN req.account_id ELSE api_keys[key_id].account_id

\* the request was answered 400 and changed nothing
Refused == response'.status = 400 /\ UNCHANGED <<accounts, api_keys, next_key_id>>

(* C17: after any sequence of add-key, update-key (a change of name or a   *)
(* move to another account included), delete-key and delete-account        *)
(* requests no two stored keys of the same account have the same name; a   *)
(* request that would create such a pair is rejected and leaves the store  *)
(* unchanged.                                                              *)
C17_NamesUniquePerAccount ==
    /\ [](\A i, j \in DOMAIN api_keys :
            /\ api_keys[i].account_id # NoneId
            /\ api_keys[i].account_id = api_keys[j].account_id
            /\ api_keys[i].name = api_keys[j].name
            => i = j)
    /\ [][/\ \A req \in AddRequests :
               AddKey(req) /\ NameTaken(req.name, req.account_id, NoneId) => Refused
          /\ \A key_id \in DOMAIN api_keys, req \in UpdateRequests :
               /\ UpdateKey(key_id, req)
               /\ NameTaken(req.name, TargetAccount(key_id, req), key_id)
               => Refused]_vars

\* the move of a key to the account where the other key has its name was
\* rejected
C17_Witness ==
    /\ response.endpoint = "update_key_endpoint"
    /\ response.status = 400
    /\ response.error = NameExistsError
    /\ \E i, j \in DOMAIN api_keys :
         /\ api_keys[i].name = api_keys[j].name
         /\ api_keys[i].account_id = 1
         /\ api_keys[j].account_id = 2

\* the entries of a JSON body that hold key material
KeyTextFields == {"key", "full_key", "masked_key"}

\* the text shows a leading part of the secret that its masked form does not
Reveals(text, secret) ==
    \E n \in 1..Len(secret) :
        /\ Contains(text, Take(secret, n))
        /\ ~Contains(mask_api_key(secret), Take(secret, n))

(* C16: a stored secret is returned to a client only by the reveal          *)
(* interface GET /api/keys/<id>/full: the response of every other endpoint  *)
(* (GET /api/keys, POST and PUT /api/keys, /api/usage, /api/debug) holds no *)
(* full secret and no part of one beyond its masked form.                   *)
C16_SecretsOnlyRevealed ==
    response.endpoint # "get_full_key" =>
        \A i \in DOMAIN api_keys, k \in DOMAIN response.body :
            \A f \in DOMAIN response.body[k] \cap KeyTextFields :
                ~Reveals(response.body[k][f], api_keys[i].full_key)

(* C18: after any sequence of add-key and update-key requests, updates     *)
(* that replace the secret included, the provider and the key_type stored  *)
(* with every key are the classification of its current secret.            *)
C18_CacheFollowsSecret ==
    \A i \in DOMAIN api_keys :
        Classification(api_keys[i].provider, api_keys[i].key_type)
            = detect_key_type(api_keys[i].full_key)

\* the stored admin keys and the orphaned keys (project keys linked to no
\* admin key)
AdminKeys == {i \in DOMAIN api_keys : api_keys[i].key_type = "admin"}
OrphanedKeys ==
    {i \in DOMAIN api_keys :
        api_keys[i].key_type = "project" /\ api_keys[i].admin_key_id = NoneId}

\* the outbound calls of the last request that open a probe
ProbeStarts ==
    {n \in 1..Len(response.calls) :
        response.calls[n].url \in
            {OPENAI_USAGE_URL, ANTHROPIC_MESSAGES_URL, BRAVE_SEARCH_URL}}

(* C19: during one /api/usage request a probe is run exactly once for each *)
(* stored admin key and for no project key; every orphaned key (a project  *)
(* key with no linked admin key) is reported with status 'info_only' and   *)
(* no outbound call is made with its secret.                               *)
C19_AdminKeysProbedOrphansListed ==
    response.endpoint = "get_usage" =>
        /\ Cardinality(ProbeStarts) = Cardinality(AdminKeys)
        /\ \A i \in AdminKeys : \E n \in ProbeStarts :
              response.calls[n].key = api_keys[i].full_key
        /\ \A n \in 1..Len(response.calls) : \E i \in AdminKeys :
              response.calls[n].key = api_keys[i].full_key
        /\ \A i \in OrphanedKeys :
              /\ \E k \in DOMAIN response.body :
                    /\ response.body[k].id = i
                    /\ response.body[k].status = "info_only"
              /\ \A n \in 1..Len(response.calls) :
                    response.calls[n].key # api_keys[i].full_key

\* the stored project keys
ProjectKeys == {i \in DOMAIN api_keys : api_keys[i].key_type = "project"}

\* the entries of the report that list key i among the project keys of a
\* probed admin key, and those that show it as an 'info_only' entry of its own
ListedUnder(i) ==
    {k \in DOMAIN response.body :
        /\ response.body[k].status # "info_only"
        /\ i \in response.body[k].associated_project_keys}
OwnEntries(i) ==
    {k \in DOMAIN response.body :
        response.body[k].id = i /\ response.body[k].status = "info_only"}

(* C21: after any sequence of add-key, update-key, delete-key and          *)
(* delete-account requests every stored key of type 'project' is visible   *)
(* in the /api/usage report: listed in associated_project_keys of exactly  *)
(* one probed admin key's entry, or as an 'info_only' entry of its own;    *)
(* none is omitted, not even one whose admin_key_id names a key that was   *)
(* deleted or that is no admin key.                                        *)
C21_ProjectKeysVisible ==
    response.endpoint = "get_usage" =>
        \A i \in ProjectKeys :
            \/ Cardinality(ListedUnder(i)) = 1
            \/ OwnEntries(i) # {}

============================================================================
